---------------------------- MODULE Spec2Model ----------------------------
(***************************************************************************)
(* A model of bin/boundaries.py (jonkri/mapit): the OSM element classes,   *)
(* the SAX event handler OSMXMLParser, Relation.way_iterator,              *)
(* EndpointToWayMap and join_way_soup.                                     *)
(*                                                                         *)
(* A Node is compared and hashed by node_id alone (Node.__eq__,            *)
(* Node.__hash__), so in the way-joining part a point is its node_id.      *)
(* A Way there is the record [way_id, nodes, tags]; way_id is "None" for   *)
(* the ways Way.join constructs.  The parser part keeps a heap of objects  *)
(* so that object identity differs from equality of ids.                   *)
(***************************************************************************)
EXTENDS Integers, Sequences, FiniteSets, TLC

VARIABLES
    ways,           \* the Way objects the iterable `ways` has yielded so far
    budget,         \* how many more nodes the ways still to come may hold
    pool,           \* the ways a fixed collection has still to yield
    closed_ways,    \* join_way_soup: the result list
    endpoints,      \* EndpointToWayMap.endpoints : point -> Way
    join_calls,     \* every call of Way.join so far: [self, other, result]
    call,           \* the last direct call of a method: [op, a, b]
    ret,            \* what that call returned (a list of ways)
    outcome,        \* "running", "returned" or the failure raised
    objs,           \* the heap of Node, Way and Relation objects; an address is an index
    top_level_elements,         \* OSMXMLParser: a list of addresses
    current_top_level_element,  \* OSMXMLParser: an address, or Null
    known_nodes,    \* OSMXMLParser: id -> address
    known_ways,     \* OSMXMLParser: id -> address
    known_relations,\* OSMXMLParser: id -> address
    stack,          \* way_iterator: the generators in progress
    yielded,        \* way_iterator: the ways yielded so far
    inner,          \* way_iterator: the argument of the outermost call
    cache,          \* fetch_cached: the files of the cache directory, (type, id) -> document
    calls           \* fetch_osm_element: the calls in progress, each with its session

joinVars == <<ways, budget, pool, closed_ways, endpoints, join_calls>>

parserVars == <<top_level_elements, current_top_level_element,
                known_nodes, known_ways, known_relations>>

iterVars == <<stack, yielded, inner>>

fetchVars == <<cache, calls>>

vars == <<joinVars, call, ret, outcome, objs, parserVars, iterVars, fetchVars>>

---------------------------------------------------------------------------
(* Bounds *)

\* the total number of node references in the ways of one input
MaxSlots == 6

\* the same, for the ways a driver of EndpointToWayMap builds
MaxIndexSlots == 4

---------------------------------------------------------------------------
(* Python values *)

None == "None"

\* None where an object is expected: no address
Null == 0

EmptyDict == <<>>

Range(s) == {s[i] : i \in 1..Len(s)}

Reverse(s) == [i \in 1..Len(s) |-> s[Len(s) + 1 - i]]

\* s[0:-1]
ButLast(s) == SubSeq(s, 1, Len(s) - 1)

DictSet(d, k, v) == [x \in (DOMAIN d) \cup {k} |-> IF x = k THEN v ELSE d[x]]

DictDel(d, k) == [x \in (DOMAIN d) \ {k} |-> d[x]]

---------------------------------------------------------------------------
(* class Way *)

Way(way_id, nodes) == [way_id |-> way_id, nodes |-> nodes, tags |-> EmptyDict]

first(w) == w.nodes[1]

last(w) == w.nodes[Len(w.nodes)]

closed(w) == first(w) = last(w)

\* Way.join keeping the shared node twice when self.first == other.last
join_KeepsSharedNode(self, other) ==
    IF closed(self) THEN [err |-> "AlreadyClosed", way |-> <<>>]
    ELSE IF closed(other) THEN [err |-> "AlreadyClosed", way |-> <<>>]
    ELSE IF first(self) = first(other) THEN
        [err |-> "none",
         way |-> <<Way(None, ButLast(Reverse(other.nodes)) \o self.nodes)>>]
    ELSE IF first(self) = last(other) THEN
        [err |-> "none", way |-> <<Way(None, other.nodes \o self.nodes)>>]
    ELSE IF last(self) = first(other) THEN
        [err |-> "none", way |-> <<Way(None, ButLast(self.nodes) \o other.nodes)>>]
    ELSE IF last(self) = last(other) THEN
        [err |-> "none",
         way |-> <<Way(None, ButLast(self.nodes) \o Reverse(other.nodes))>>]
    ELSE [err |-> "NoCommonEndpoint", way |-> <<>>]

\* Way.join not reversing other when self.first == other.first
join_NoReverse(self, other) ==
    IF closed(self) THEN [err |-> "AlreadyClosed", way |-> <<>>]
    ELSE IF closed(other) THEN [err |-> "AlreadyClosed", way |-> <<>>]
    ELSE IF first(self) = first(other) THEN
        [err |-> "none", way |-> <<Way(None, ButLast(other.nodes) \o self.nodes)>>]
    ELSE IF first(self) = last(other) THEN
        [err |-> "none", way |-> <<Way(None, ButLast(other.nodes) \o self.nodes)>>]
    ELSE IF last(self) = first(other) THEN
        [err |-> "none", way |-> <<Way(None, ButLast(self.nodes) \o other.nodes)>>]
    ELSE IF last(self) = last(other) THEN
        [err |-> "none",
         way |-> <<Way(None, ButLast(self.nodes) \o Reverse(other.nodes))>>]
    ELSE [err |-> "NoCommonEndpoint", way |-> <<>>]

\* Way.join without the check that other is open
join_ChecksSelfOnly(self, other) ==
    IF closed(self) THEN [err |-> "AlreadyClosed", way |-> <<>>]
    ELSE IF first(self) = first(other) THEN
        [err |-> "none",
         way |-> <<Way(None, ButLast(Reverse(other.nodes)) \o self.nodes)>>]
    ELSE IF first(self) = last(other) THEN
        [err |-> "none", way |-> <<Way(None, ButLast(other.nodes) \o self.nodes)>>]
    ELSE IF last(self) = first(other) THEN
        [err |-> "none", way |-> <<Way(None, ButLast(self.nodes) \o other.nodes)>>]
    ELSE IF last(self) = last(other) THEN
        [err |-> "none",
         way |-> <<Way(None, ButLast(self.nodes) \o Reverse(other.nodes))>>]
    ELSE [err |-> "NoCommonEndpoint", way |-> <<>>]

\* Way.join: the way built, or the failure raised
join(self, other) ==
    IF closed(self) THEN [err |-> "AlreadyClosed", way |-> <<>>]
    ELSE IF closed(other) THEN [err |-> "AlreadyClosed", way |-> <<>>]
    ELSE IF first(self) = first(other) THEN
        [err |-> "none",
         way |-> <<Way(None, ButLast(Reverse(other.nodes)) \o self.nodes)>>]
    ELSE IF first(self) = last(other) THEN
        [err |-> "none", way |-> <<Way(None, ButLast(other.nodes) \o self.nodes)>>]
    ELSE IF last(self) = first(other) THEN
        [err |-> "none", way |-> <<Way(None, ButLast(self.nodes) \o other.nodes)>>]
    ELSE IF last(self) = last(other) THEN
        [err |-> "none",
         way |-> <<Way(None, ButLast(self.nodes) \o Reverse(other.nodes))>>]
    ELSE [err |-> "NoCommonEndpoint", way |-> <<>>]

---------------------------------------------------------------------------
(* class EndpointToWayMap, on the dictionary eps *)

\* get_from_either_end looking at way.first only
get_from_either_end_FirstOnly(eps, way) ==
    IF first(way) \in DOMAIN eps THEN <<eps[first(way)]>> ELSE <<>>

\* get_from_either_end listing a way registered under both ends once
get_from_either_end_Once(eps, way) ==
    LET atFirst == IF first(way) \in DOMAIN eps THEN <<eps[first(way)]>> ELSE <<>>
        atLast  == IF last(way) \in DOMAIN eps /\ eps[last(way)] \notin Range(atFirst)
                   THEN <<eps[last(way)]>> ELSE <<>>
    IN  atFirst \o atLast

get_from_either_end(eps, way) ==
    LET atFirst == IF first(way) \in DOMAIN eps THEN <<eps[first(way)]>> ELSE <<>>
        atLast  == IF last(way) \in DOMAIN eps THEN <<eps[last(way)]>> ELSE <<>>
    IN  atFirst \o atLast

\* add_way without the check for existing registrations
add_way_Overwrites(eps, way) ==
    [err |-> "none", eps |-> DictSet(DictSet(eps, first(way), way), last(way), way)]

\* add_way registering the way under way.first only
add_way_FirstOnly(eps, way) ==
    IF get_from_either_end(eps, way) # <<>>
    THEN [err |-> "ConflictingEndpoint", eps |-> eps]
    ELSE [err |-> "none", eps |-> DictSet(eps, first(way), way)]

add_way(eps, way) ==
    IF get_from_either_end(eps, way) # <<>>
    THEN [err |-> "ConflictingEndpoint", eps |-> eps]
    ELSE [err |-> "none",
          eps |-> DictSet(DictSet(eps, first(way), way), last(way), way)]

\* remove_way with the first del statement only
remove_way_FirstOnly(eps, way) ==
    IF first(way) \notin DOMAIN eps THEN [err |-> "KeyError", eps |-> eps]
    ELSE [err |-> "none", eps |-> DictDel(eps, first(way))]

\* two del statements: the second can fail after the first has deleted
remove_way(eps, way) ==
    IF first(way) \notin DOMAIN eps THEN [err |-> "KeyError", eps |-> eps]
    ELSE LET one == DictDel(eps, first(way))
         IN  IF last(way) \notin DOMAIN one THEN [err |-> "KeyError", eps |-> one]
             ELSE [err |-> "none", eps |-> DictDel(one, last(way))]

\* number_of_endpoints that never sees a waiting way
number_of_endpoints_Zero(eps) == 0

number_of_endpoints(eps) == Cardinality(DOMAIN eps)

---------------------------------------------------------------------------
(* The inputs.  join_way_soup, Way.join and EndpointToWayMap compare       *)
(* points only for equality, so an input is taken up to a renaming of its  *)
(* points: the points are numbered in the order of their first use.        *)

\* the node lists of k nodes, when the points 1..m are in use already
RECURSIVE NodeLists(_, _)
NodeLists(k, m) ==
    IF k = 0 THEN {<<>>}
    ELSE UNION {{<<v>> \o r : r \in NodeLists(k - 1, IF v > m THEN v ELSE m)}
                : v \in 1..(m + 1)}

RECURSIVE MaxOf(_)
MaxOf(s) ==
    IF s = <<>> THEN 0
    ELSE LET m == MaxOf(Tail(s)) IN IF Head(s) > m THEN Head(s) ELSE m

RECURSIVE PointsUsed(_)
PointsUsed(ws) ==
    IF ws = <<>> THEN 0
    ELSE LET m == PointsUsed(Tail(ws))
             h == MaxOf(Head(ws).nodes)
         IN  IF h > m THEN h ELSE m

\* the ways that can come next after the ways ws, holding at most n nodes:
\* every way has at least one node (first and last index it)
FreshWays(ws, n) ==
    UNION {{Way(ToString(Len(ws) + 1), nl) : nl \in NodeLists(k, PointsUsed(ws))}
           : k \in 1..n}

\* two triangles on disjoint points, 1-2-3 and 4-5-6, as six two-node ways
TriangleWays ==
    {Way("t1", <<1, 2>>), Way("t2", <<2, 3>>), Way("t3", <<3, 1>>),
     Way("t4", <<4, 5>>), Way("t5", <<5, 6>>), Way("t6", <<6, 4>>)}

\* what the iterable yields next: a way of the fixed collection, or any way
\* within the budget
NextWays == IF pool # {} THEN pool ELSE FreshWays(ways, budget)

Yield(way) ==
    /\ ways' = Append(ways, way)
    /\ pool' = pool \ {way}
    /\ budget' = IF pool # {} THEN budget ELSE budget - Len(way.nodes)

NoCall == [op |-> "none", a |-> <<>>, b |-> <<>>]

---------------------------------------------------------------------------
(* join_way_soup(ways): one action for each path through the loop body,    *)
(* and one for each way the function ends.  The loop draws the next way    *)
(* from the iterable when it starts an iteration.                          *)

\* no way built, nothing called
JoinIdle ==
    /\ ways = <<>>
    /\ closed_ways = <<>>
    /\ endpoints = EmptyDict
    /\ join_calls = <<>>
    /\ call = NoCall
    /\ ret = <<>>
    /\ outcome = "running"

\* OSMXMLParser.__init__
SessionIdle ==
    /\ top_level_elements = <<>>
    /\ current_top_level_element = Null
    /\ known_nodes = EmptyDict
    /\ known_ways = EmptyDict
    /\ known_relations = EmptyDict

\* an empty cache directory, no call of fetch_osm_element
FetchIdle ==
    /\ cache = EmptyDict
    /\ calls = <<>>

\* nothing built, nothing called
Idle ==
    /\ JoinIdle
    /\ SessionIdle
    /\ FetchIdle
    /\ objs = <<>>
    /\ stack = <<>>
    /\ yielded = <<>>
    /\ inner = FALSE

SoupInit ==
    /\ Idle
    /\ \/ budget = MaxSlots /\ pool = {}
       \/ budget = 0 /\ pool = TriangleWays

\* the joined way is dropped instead of going back into the index
AfterLoop_DropsJoined(st) == st

\* lines 398-399, after the inner loop; st = [joined, eps, closed_ways, calls, err]
AfterLoop(st) ==
    IF ~closed(st.joined)
    THEN LET r == add_way(st.eps, st.joined)
         IN  [st EXCEPT !.eps = r.eps, !.err = r.err]
    ELSE st

\* lines 392-397, the inner loop over to_join_to from its i-th entry on,
\* and then lines 398-399
RECURSIVE JoinLoop(_, _, _)
JoinLoop(st, to_join_to, i) ==
    IF i > Len(to_join_to) THEN AfterLoop(st)
    ELSE
        LET existing_way == to_join_to[i]
            j == join(st.joined, existing_way)
            logged == Append(st.calls,
                [self |-> st.joined, other |-> existing_way, result |-> j.way])
        IN  IF j.err # "none" THEN [st EXCEPT !.calls = logged, !.err = j.err]
            ELSE
              LET joined == j.way[1]
                  rm == remove_way(st.eps, existing_way)
              IN  IF rm.err # "none"
                  THEN [st EXCEPT !.joined = joined, !.calls = logged,
                                  !.eps = rm.eps, !.err = rm.err]
                  ELSE IF closed(joined)
                  THEN AfterLoop([st EXCEPT !.joined = joined, !.calls = logged,
                                    !.eps = rm.eps,
                                    !.closed_ways = Append(st.closed_ways, joined)])
                  ELSE JoinLoop([st EXCEPT !.joined = joined, !.calls = logged,
                                           !.eps = rm.eps],
                                to_join_to, i + 1)

\* the closed way is appended and then, the continue forgotten, indexed too
SoupClosed_FallsThrough ==
    /\ outcome = "running"
    /\ \E way \in NextWays :
        /\ closed(way)
        /\ Yield(way)
        /\ closed_ways' = Append(closed_ways, way)
        /\ endpoints' = add_way(endpoints, way).eps
    /\ UNCHANGED <<join_calls, call, ret, outcome>>
    /\ UNCHANGED <<objs, parserVars, iterVars, fetchVars>>

\* the closed way is skipped instead of going to the result
SoupClosed_Dropped ==
    /\ outcome = "running"
    /\ \E way \in NextWays :
        /\ closed(way)
        /\ Yield(way)
    /\ UNCHANGED <<closed_ways, endpoints, join_calls, call, ret, outcome>>
    /\ UNCHANGED <<objs, parserVars, iterVars, fetchVars>>

\* lines 385-387: a closed way goes straight to the result
SoupClosed ==
    /\ outcome = "running"
    /\ \E way \in NextWays :
        /\ closed(way)
        /\ Yield(way)
        /\ closed_ways' = Append(closed_ways, way)
    /\ UNCHANGED <<endpoints, join_calls, call, ret, outcome>>
    /\ UNCHANGED <<objs, parserVars, iterVars, fetchVars>>

\* lines 389-399: the way is joined to the ways waiting at its ends
SoupJoin ==
    /\ outcome = "running"
    /\ \E way \in NextWays :
        LET to_join_to == get_from_either_end(endpoints, way)
            st == JoinLoop([joined |-> way, eps |-> endpoints,
                            closed_ways |-> closed_ways, calls |-> join_calls,
                            err |-> "none"], to_join_to, 1)
        IN  /\ ~closed(way)
            /\ to_join_to # <<>>
            /\ Yield(way)
            /\ endpoints' = st.eps
            /\ closed_ways' = st.closed_ways
            /\ join_calls' = st.calls
            /\ outcome' = IF st.err = "none" THEN outcome ELSE st.err
    /\ UNCHANGED <<call, ret>>
    /\ UNCHANGED <<objs, parserVars, iterVars, fetchVars>>

\* lines 400-401: nothing to join to, the way waits in the index
SoupAdd ==
    /\ outcome = "running"
    /\ \E way \in NextWays :
        LET r == add_way(endpoints, way)
        IN  /\ ~closed(way)
            /\ get_from_either_end(endpoints, way) = <<>>
            /\ Yield(way)
            /\ endpoints' = r.eps
            /\ outcome' = IF r.err = "none" THEN outcome ELSE r.err
    /\ UNCHANGED <<closed_ways, join_calls, call, ret>>
    /\ UNCHANGED <<objs, parserVars, iterVars, fetchVars>>

\* lines 402-404: the iterable is exhausted and ways are still waiting
SoupRaise ==
    /\ outcome = "running"
    /\ pool = {}
    /\ number_of_endpoints(endpoints) # 0
    /\ outcome' = "UnclosedBoundary"
    /\ UNCHANGED <<ways, budget, pool, closed_ways, endpoints, join_calls, call, ret>>
    /\ UNCHANGED <<objs, parserVars, iterVars, fetchVars>>

\* line 405
SoupReturn ==
    /\ outcome = "running"
    /\ pool = {}
    /\ number_of_endpoints(endpoints) = 0
    /\ outcome' = "returned"
    /\ ret' = closed_ways
    /\ UNCHANGED <<ways, budget, pool, closed_ways, endpoints, join_calls, call>>
    /\ UNCHANGED <<objs, parserVars, iterVars, fetchVars>>

SoupNext == SoupClosed \/ SoupJoin \/ SoupAdd \/ SoupRaise \/ SoupReturn

Spec == SoupInit /\ [][SoupNext]_vars

---------------------------------------------------------------------------
(* Way.join called directly: two Way objects are built, then self.join(other) *)

JoinInit == Idle /\ budget = MaxSlots /\ pool = {}

\* Way.__init__ with a node list
NewWay ==
    /\ call = NoCall
    /\ Len(ways) < 2
    /\ \E way \in FreshWays(ways, budget) : Yield(way)
    /\ UNCHANGED <<closed_ways, endpoints, join_calls, call, ret, outcome>>
    /\ UNCHANGED <<objs, parserVars, iterVars, fetchVars>>

CallJoin ==
    /\ call = NoCall
    /\ Len(ways) = 2
    /\ LET j == join(ways[1], ways[2])
       IN  /\ call' = [op |-> "join", a |-> <<ways[1]>>, b |-> <<ways[2]>>]
           /\ ret' = j.way
           /\ outcome' = IF j.err = "none" THEN "returned" ELSE j.err
           /\ join_calls' = Append(join_calls,
                 [self |-> ways[1], other |-> ways[2], result |-> j.way])
    /\ UNCHANGED <<ways, budget, pool, closed_ways, endpoints>>
    /\ UNCHANGED <<objs, parserVars, iterVars, fetchVars>>

JoinNext == NewWay \/ CallJoin

SpecJoin == JoinInit /\ [][JoinNext]_vars

---------------------------------------------------------------------------
(* EndpointToWayMap driven directly: any of its three methods, on a way    *)
(* built earlier or on a new one.                                          *)

IndexInit == Idle /\ budget = MaxIndexSlots /\ pool = {}

\* the step passes `way`, building it first when it is new
Pass(way) ==
    IF way \in Range(ways)
    THEN UNCHANGED <<ways, budget, pool>>
    ELSE Yield(way)

Args == Range(ways) \cup FreshWays(ways, budget)

CallAddWay ==
    /\ \E way \in Args :
        LET r == add_way(endpoints, way)
        IN  /\ Pass(way)
            /\ call' = [op |-> "add_way", a |-> <<way>>, b |-> <<>>]
            /\ endpoints' = r.eps
            /\ ret' = <<>>
            /\ outcome' = IF r.err = "none" THEN "returned" ELSE r.err
    /\ UNCHANGED <<closed_ways, join_calls>>
    /\ UNCHANGED <<objs, parserVars, iterVars, fetchVars>>

CallRemoveWay ==
    /\ \E way \in Args :
        LET r == remove_way(endpoints, way)
        IN  /\ Pass(way)
            /\ call' = [op |-> "remove_way", a |-> <<way>>, b |-> <<>>]
            /\ endpoints' = r.eps
            /\ ret' = <<>>
            /\ outcome' = IF r.err = "none" THEN "returned" ELSE r.err
    /\ UNCHANGED <<closed_ways, join_calls>>
    /\ UNCHANGED <<objs, parserVars, iterVars, fetchVars>>

CallGetFromEitherEnd ==
    /\ \E way \in Args :
        /\ Pass(way)
        /\ call' = [op |-> "get_from_either_end", a |-> <<way>>, b |-> <<>>]
        /\ ret' = get_from_either_end(endpoints, way)
        /\ outcome' = "returned"
    /\ UNCHANGED <<closed_ways, endpoints, join_calls>>
    /\ UNCHANGED <<objs, parserVars, iterVars, fetchVars>>

IndexNext == CallAddWay \/ CallRemoveWay \/ CallGetFromEitherEnd

SpecIndex == IndexInit /\ [][IndexNext]_vars

---------------------------------------------------------------------------
(* class Node, class Relation and the objects on the heap.  The parser     *)
(* builds "instances": an object lives at an address of objs, a Way's      *)
(* nodes and a Relation's children hold addresses, and two objects can     *)
(* carry the same id.  Latitude and longitude are left out: nothing here   *)
(* reads them.                                                             *)

Node(node_id) == [node_id |-> node_id, tags |-> EmptyDict]

Relation(relation_id) ==
    [relation_id |-> relation_id, children |-> <<>>, tags |-> EmptyDict]

get_element_name(o) ==
    IF "node_id" \in DOMAIN o THEN "node"
    ELSE IF "way_id" \in DOMAIN o THEN "way"
    ELSE "relation"

\* node_id, way_id or relation_id
ElementId(o) ==
    IF "node_id" \in DOMAIN o THEN o.node_id
    ELSE IF "way_id" \in DOMAIN o THEN o.way_id
    ELSE o.relation_id

---------------------------------------------------------------------------
(* class OSMXMLParser: one session.  The SAX driver delivers the events    *)
(* of a document; an end event of a top-level element always closes the    *)
(* element that is open.  fetch_osm_element parses another document in a   *)
(* session of its own, so what it returns is made of new objects.          *)

\* the heap holds at most this many objects
MaxObjs == 2

\* a way holds at most this many nodes, a relation this many children
MaxRefs == 1

\* the objects of a session hold at most this many tags between them
MaxTags == 1

VALID_TOP_LEVEL_ELEMENTS == {"node", "relation", "way"}

VALID_RELATION_MEMBERS == {"node", "relation", "way"}

IGNORED_TAGS == {"osm", "note", "meta"}

\* the ids, tags, roles and element names that occur in the documents
Ids == {"1", "2"}

\* The session compares ids only for equality, so a document is taken up to
\* a renaming of the ids of each type: "1" comes first, then "2".
IdsOf(element_type) ==
    IF \E i \in 1..Len(objs) : get_element_name(objs[i]) = element_type
    THEN Ids ELSE {"1"}

TagKeys == {"name"}

TagValues == {"a", "b"}

Roles == {"", "outer", "inner", "enclave", "subarea"}

\* The session stores a role without reading it, so the roles of a document
\* are taken up to a renaming too: "outer" comes first, then "inner".
DocRoles ==
    IF \E i \in 1..Len(objs) :
            /\ get_element_name(objs[i]) = "relation"
            /\ objs[i].children # <<>>
    THEN {"outer", "inner"} ELSE {"outer"}

MemberTypes == VALID_RELATION_MEMBERS \cup {"changeset"}

\* the dictionary get_known_or_fetch selects
Known(element_type) ==
    IF element_type = "node" THEN known_nodes
    ELSE IF element_type = "way" THEN known_ways
    ELSE known_relations

\* d[element_id] = o for the dictionary of element_type
Register(element_type, element_id, o) ==
    /\ known_nodes' = IF element_type = "node"
                      THEN DictSet(known_nodes, element_id, o) ELSE known_nodes
    /\ known_ways' = IF element_type = "way"
                     THEN DictSet(known_ways, element_id, o) ELSE known_ways
    /\ known_relations' = IF element_type = "relation"
                          THEN DictSet(known_relations, element_id, o)
                          ELSE known_relations

\* what fetch_osm_element(element_type, element_id) can return when the heap
\* holds n objects: None, or an object of that type and id built by the
\* other session together with what it refers to.  `new` is what the heap
\* gains, `o` the address returned.  (A fetch that raises ends the session
\* where it stands.)
Fetched(element_type, element_id, n) ==
    {[new |-> <<>>, o |-> Null]}
    \cup
    (IF element_type = "node" THEN
        {[new |-> <<Node(element_id)>>, o |-> n + 1]}
     ELSE IF element_type = "way" THEN
        {[new |-> <<Way(element_id, <<>>)>>, o |-> n + 1]}
        \cup {[new |-> <<Node(i), Way(element_id, <<n + 1>>)>>, o |-> n + 2]
              : i \in Ids}
     ELSE
        {[new |-> <<Relation(element_id)>>, o |-> n + 1]}
        \cup {[new |-> <<Way(i, <<>>),
                        [Relation(element_id)
                            EXCEPT !.children = <<<<n + 1, "outer">>>>]>>,
               o |-> n + 2]
              : i \in Ids})

\* get_known_or_fetch(element_type, element_id), where fetch_osm_element
\* returns f: the object returned, or Null
Resolved(element_type, element_id, f) ==
    IF element_id \in DOMAIN Known(element_type)
    THEN Known(element_type)[element_id]
    ELSE f.o

\* its effect on the heap and on the dictionaries
Resolve(element_type, element_id, f) ==
    IF element_id \in DOMAIN Known(element_type) \/ f.o = Null
    THEN UNCHANGED <<known_nodes, known_ways, known_relations>>
    ELSE Register(element_type, element_id, f.o)

\* the choices of f: one, unused, when the element is known
Fetches(element_type, element_id) ==
    IF element_id \in DOMAIN Known(element_type)
    THEN {[new |-> <<>>, o |-> Null]}
    ELSE {f \in Fetched(element_type, element_id, Len(objs)) :
            Len(objs) + Len(f.new) <= MaxObjs}

\* the number of tags on the heap
RECURSIVE TagCount(_)
TagCount(heap) ==
    IF heap = <<>> THEN 0
    ELSE Cardinality(DOMAIN Head(heap).tags) + TagCount(Tail(heap))

ParserInit == Idle /\ budget = 0 /\ pool = {}

Parsing == outcome = "running"

\* the exception leaves the session without its current element
Raise_ForgetsCurrent(name) ==
    /\ outcome' = name
    /\ current_top_level_element' = Null
    /\ UNCHANGED <<objs, top_level_elements, known_nodes, known_ways,
                   known_relations, call, ret>>

\* an exception leaves startElement: the parse is over
Raise(name) ==
    /\ outcome' = name
    /\ UNCHANGED <<objs, parserVars, call, ret>>

\* startElement(name, attr), name in IGNORED_TAGS; endElement(name), name
\* not in VALID_TOP_LEVEL_ELEMENTS
Ignored ==
    /\ Parsing
    /\ UNCHANGED vars

\* startElement(name, attr), name in VALID_TOP_LEVEL_ELEMENTS, attr['id'] = id
TopLevel(name, id) ==
    /\ Parsing
    /\ IF current_top_level_element # Null
       THEN Raise("UnexpectedElement")
       ELSE /\ Len(objs) < MaxObjs
            /\ objs' = Append(objs, IF name = "node" THEN Node(id)
                                    ELSE IF name = "way" THEN Way(id, <<>>)
                                    ELSE Relation(id))
            /\ current_top_level_element' = Len(objs) + 1
            /\ Register(name, id, Len(objs) + 1)
            /\ UNCHANGED <<top_level_elements, outcome, call, ret>>
    /\ UNCHANGED <<joinVars, iterVars, fetchVars>>

StartTopLevel ==
    \E name \in VALID_TOP_LEVEL_ELEMENTS : \E id \in IdsOf(name) : TopLevel(name, id)

\* startElement("tag", attr), attr['k'] = k, attr['v'] = v
Tag(k, v) ==
    /\ Parsing
    /\ IF current_top_level_element = Null
       THEN Raise("UnexpectedElement")
       ELSE /\ \/ k \in DOMAIN objs[current_top_level_element].tags
               \/ TagCount(objs) < MaxTags
            /\ objs' = [objs EXCEPT ![current_top_level_element].tags =
                                        DictSet(@, k, v)]
            /\ UNCHANGED <<parserVars, outcome, call, ret>>
    /\ UNCHANGED <<joinVars, iterVars, fetchVars>>

StartTag == \E k \in TagKeys, v \in TagValues : Tag(k, v)

\* startElement("member", attr), attr['type'] = type, attr['ref'] = ref,

\* startElement("member", attr) for which a miss is as fatal as for nd
Member_MissIsFatal(type, ref, role) ==
    /\ Parsing
    /\ IF current_top_level_element = Null
       THEN Raise("UnexpectedElement")
       ELSE IF get_element_name(objs[current_top_level_element]) # "relation"
       THEN Raise("UnexpectedElement")
       ELSE IF type \notin VALID_RELATION_MEMBERS
       THEN Raise("TypeError")
       ELSE
            \E f \in Fetches(type, ref) :
              LET member == Resolved(type, ref, f)
                  heap == objs \o f.new
                  c == current_top_level_element
              IN  /\ Resolve(type, ref, f)
                  /\ IF member # Null
                     THEN /\ Len(objs[c].children) < MaxRefs
                          /\ objs' = [heap EXCEPT ![c].children =
                                              Append(@, <<member, role>>)]
                          /\ outcome' = outcome
                     ELSE objs' = heap /\ outcome' = "MissingReference"
                  /\ UNCHANGED <<top_level_elements, current_top_level_element,
                                 call, ret>>
    /\ UNCHANGED <<joinVars, iterVars, fetchVars>>

\* attr['role'] = role
Member(type, ref, role) ==
    /\ Parsing
    /\ IF current_top_level_element = Null
       THEN Raise("UnexpectedElement")
       ELSE IF get_element_name(objs[current_top_level_element]) # "relation"
       THEN Raise("UnexpectedElement")
       ELSE IF type \notin VALID_RELATION_MEMBERS
       THEN Raise("TypeError")
       ELSE
            \E f \in Fetches(type, ref) :
              LET member == Resolved(type, ref, f)
                  heap == objs \o f.new
                  c == current_top_level_element
              IN  /\ Resolve(type, ref, f)
                  /\ IF member # Null
                     THEN /\ Len(objs[c].children) < MaxRefs
                          /\ objs' = [heap EXCEPT ![c].children =
                                              Append(@, <<member, role>>)]
                     ELSE objs' = heap
                  /\ UNCHANGED <<top_level_elements, current_top_level_element,
                                 outcome, call, ret>>
    /\ UNCHANGED <<joinVars, iterVars, fetchVars>>

StartMember ==
    \E type \in MemberTypes : \E ref \in IdsOf(type), role \in DocRoles :
        Member(type, ref, role)

\* startElement("nd", attr), attr['ref'] = ref
Nd(ref) ==
    /\ Parsing
    /\ IF current_top_level_element = Null
       THEN Raise("UnexpectedElement")
       ELSE IF get_element_name(objs[current_top_level_element]) # "way"
       THEN Raise("UnexpectedElement")
       ELSE
            \E f \in Fetches("node", ref) :
              LET node == Resolved("node", ref, f)
                  heap == objs \o f.new
                  c == current_top_level_element
              IN  IF node = Null
                  THEN Raise("MissingReference")
                  ELSE /\ Resolve("node", ref, f)
                       /\ Len(objs[c].nodes) < MaxRefs
                       /\ objs' = [heap EXCEPT ![c].nodes = Append(@, node)]
                       /\ UNCHANGED <<top_level_elements,
                                      current_top_level_element,
                                      outcome, call, ret>>
    /\ UNCHANGED <<joinVars, iterVars, fetchVars>>

StartNd == \E ref \in IdsOf("node") : Nd(ref)

\* startElement(name, attr), any other name
StartOther ==
    /\ Parsing
    /\ IF current_top_level_element = Null
       THEN Raise("UnexpectedElement")
       ELSE Raise("TypeError")
    /\ UNCHANGED <<joinVars, iterVars, fetchVars>>

\* endElement(name), name in VALID_TOP_LEVEL_ELEMENTS: the open element ends
EndElement ==
    /\ Parsing
    /\ current_top_level_element # Null
    /\ top_level_elements' = Append(top_level_elements, current_top_level_element)
    /\ current_top_level_element' = Null
    /\ UNCHANGED <<known_nodes, known_ways, known_relations>>
    /\ UNCHANGED <<joinVars, call, ret, outcome, objs, iterVars, fetchVars>>

\* fetch_osm_element(type, id) once parse_xml has returned the parser: None
\* for a document without elements, else parsed.get_known_or_fetch(type, id)
ReturnElement(type, id) ==
    /\ Parsing
    /\ current_top_level_element = Null
    /\ outcome' = "returned"
    /\ IF Len(top_level_elements) = 0
       THEN /\ ret' = <<>>
            /\ UNCHANGED <<objs, known_nodes, known_ways, known_relations, call>>
       ELSE \E f \in Fetches(type, id) :
                LET o == Resolved(type, id, f)
                IN  /\ Resolve(type, id, f)
                    /\ objs' = objs \o f.new
                    /\ call' = [op |-> "get_known_or_fetch", a |-> <<type, id>>,
                                b |-> <<>>]
                    /\ ret' = IF o = Null THEN <<>> ELSE <<o>>
    /\ UNCHANGED <<top_level_elements, current_top_level_element>>
    /\ UNCHANGED <<joinVars, iterVars, fetchVars>>

FetchOsmElement ==
    \E type \in VALID_RELATION_MEMBERS : \E id \in IdsOf(type) : ReturnElement(type, id)

ParserNext ==
    \/ Ignored \/ StartTopLevel \/ StartTag \/ StartMember \/ StartNd
    \/ StartOther \/ EndElement \/ FetchOsmElement

SpecParser == ParserInit /\ [][ParserNext]_vars

---------------------------------------------------------------------------
(* Relation.way_iterator(inner), a generator.  A nested relation is walked *)
(* by a generator of its own, so the generators in progress form a stack;  *)
(* a step runs the one on top up to its next decision.  A frame is         *)
(* [rel, i, inner]: the relation, the index of the child its loop is at,   *)
(* and the argument the generator was called with.                         *)

\* the relations of a graph hold at most this many children between them
MaxMembers == 2

\* the generators nested at most, standing for the interpreter's recursion
\* limit
MaxDepth == 3

\* the relation way_iterator is called on
Root == 4

\* a graph: a node, two ways and two relations with the children c1 and c2
Graph(c1, c2) ==
    <<Node("1"), Way("1", <<>>), Way("2", <<>>),
      [Relation("1") EXCEPT !.children = c1],
      [Relation("2") EXCEPT !.children = c2]>>

\* a child: any of the five objects, with any role
Entries == (1..5) \X Roles

IterInit ==
    /\ JoinIdle /\ budget = 0 /\ pool = {}
    /\ SessionIdle
    /\ FetchIdle
    /\ \E k1 \in 0..MaxMembers : \E k2 \in 0..(MaxMembers - k1) :
         \E c1 \in [1..k1 -> Entries], c2 \in [1..k2 -> Entries] :
            objs = Graph(c1, c2)
    /\ inner \in BOOLEAN
    /\ stack = <<[rel |-> Root, i |-> 1, inner |-> inner]>>
    /\ yielded = <<>>

\* the outer side accepts the role 'enclave' too
Skipped_EnclaveIsOuter(side, role) ==
    IF side THEN role \notin {"enclave", "inner"}
    ELSE role # "" /\ role \notin {"outer", "enclave"}

\* the test that ends in `continue`; an empty role is false
Skipped(side, role) ==
    IF side THEN role \notin {"enclave", "inner"}
    ELSE role # "" /\ role # "outer"

Iterating == outcome = "running" /\ stack # <<>>

Top == stack[Len(stack)]

\* the loop of the generator on top has a child to look at
AtChild == Iterating /\ Top.i <= Len(objs[Top.rel].children)

Child == objs[Top.rel].children[Top.i][1]

Role == objs[Top.rel].children[Top.i][2]

\* the loop of the generator on top moves on to its next child
Advance(stk) == [stk EXCEPT ![Len(stk)].i = @ + 1]

\* `continue`: the role is not one of the side
Continue ==
    /\ AtChild
    /\ Skipped(Top.inner, Role)
    /\ stack' = Advance(stack)
    /\ UNCHANGED <<yielded, inner, outcome>>
    /\ UNCHANGED <<joinVars, call, ret, objs, parserVars, fetchVars>>

\* `yield child`
YieldWay ==
    /\ AtChild
    /\ ~Skipped(Top.inner, Role)
    /\ get_element_name(objs[Child]) = "way"
    /\ yielded' = Append(yielded, Child)
    /\ stack' = Advance(stack)
    /\ UNCHANGED <<inner, outcome>>
    /\ UNCHANGED <<joinVars, call, ret, objs, parserVars, fetchVars>>

\* child.way_iterator(inner) starts, unless the nesting is too deep
Recurse ==
    /\ AtChild
    /\ ~Skipped(Top.inner, Role)
    /\ get_element_name(objs[Child]) = "relation"
    /\ IF Len(stack) < MaxDepth
       THEN /\ stack' = Append(stack, [rel |-> Child, i |-> 1,
                                         inner |-> Top.inner])
            /\ UNCHANGED outcome
       ELSE /\ outcome' = "RecursionError"
            /\ UNCHANGED stack
    /\ UNCHANGED <<yielded, inner>>
    /\ UNCHANGED <<joinVars, call, ret, objs, parserVars, fetchVars>>

\* neither branch: the child is a node
NodeChild ==
    /\ AtChild
    /\ ~Skipped(Top.inner, Role)
    /\ get_element_name(objs[Child]) = "node"
    /\ stack' = Advance(stack)
    /\ UNCHANGED <<yielded, inner, outcome>>
    /\ UNCHANGED <<joinVars, call, ret, objs, parserVars, fetchVars>>

\* the loop of the generator on top is over: the generator ends, and the
\* loop that was drawing from it moves on
Exhausted ==
    /\ Iterating
    /\ Top.i > Len(objs[Top.rel].children)
    /\ IF Len(stack) = 1
       THEN /\ stack' = <<>>
            /\ outcome' = "returned"
       ELSE /\ stack' = Advance(ButLast(stack))
            /\ UNCHANGED outcome
    /\ UNCHANGED <<yielded, inner>>
    /\ UNCHANGED <<joinVars, call, ret, objs, parserVars, fetchVars>>

IterNext == Continue \/ YieldWay \/ Recurse \/ NodeChild \/ Exhausted

SpecIter == IterInit /\ [][IterNext]_vars

---------------------------------------------------------------------------
(* fetch_osm_element(element_type, element_id) with the documents behind   *)
(* it.  fetch_cached downloads the document of (type, id) unless the cache *)
(* directory has it; parse_xml reads it in a session of its own, and a     *)
(* member that session does not know is fetched by a nested call.  A       *)
(* session is kept here as the keys of its dictionaries and the length of  *)
(* its top-level list.  The documents are well nested, their elements are  *)
(* relations and ways, and only relations refer to other elements (the     *)
(* nodes of a way come before the way in a document).  The nesting of the  *)
(* calls is limited by MaxDepth.                                           *)

\* the stored documents hold at most this many elements between them
MaxElems == 2

FetchKinds == {"relation", "way"}

Keys == FetchKinds \X Ids

\* the sequences over S of length at most n
SeqsUpTo(S, n) == UNION {[1..k -> S] : k \in 0..n}

\* the elements of a document: [kind, id, members], members a list of keys
Elements ==
    {[kind |-> "relation", id |-> i, members |-> ms] :
        i \in Ids, ms \in SeqsUpTo(Keys, MaxRefs)}
    \cup {[kind |-> "way", id |-> i, members |-> <<>>] : i \in Ids}

RECURSIVE SumLen(_)
SumLen(S) ==
    IF S = {} THEN 0
    ELSE LET k == CHOOSE x \in S : TRUE IN Len(cache[k]) + SumLen(S \ {k})

\* the number of elements stored
Stored == SumLen(DOMAIN cache)

\* a call of fetch_osm_element(type, id) as it starts
NewCall(key) ==
    [key |-> key, pc |-> "fetch_cached", e |-> 0, m |-> 0, known |-> {},
     len |-> 0, res |-> None]

\* fetch_osm_element(type, id) is called, the cache directory being empty
FetchInit ==
    /\ ways = <<>> /\ budget = 0 /\ pool = {}
    /\ closed_ways = <<>> /\ endpoints = EmptyDict /\ join_calls = <<>>
    /\ ret = <<>> /\ outcome = "running"
    /\ SessionIdle
    /\ objs = <<>>
    /\ stack = <<>> /\ yielded = <<>> /\ inner = FALSE
    /\ cache = EmptyDict
    /\ \E key \in Keys :
        /\ call = [op |-> "fetch_osm_element", a |-> key, b |-> <<>>]
        /\ calls = <<NewCall(key)>>

Fetching == outcome = "running" /\ calls # <<>>

Frame == calls[Len(calls)]

Doc == cache[Frame.key]

SetFrame(f) == calls' = [calls EXCEPT ![Len(calls)] = f]

\* a nested call of fetch_osm_element, unless the nesting is too deep
Call(waiting, key) ==
    IF Len(calls) < MaxDepth
    THEN /\ calls' = Append([calls EXCEPT ![Len(calls)] = waiting], NewCall(key))
         /\ UNCHANGED outcome
    ELSE /\ outcome' = "RecursionError"
         /\ UNCHANGED calls

\* fetch_cached: the file is downloaded if the cache directory lacks it
FetchCached ==
    /\ Fetching
    /\ Frame.pc = "fetch_cached"
    /\ IF Frame.key \in DOMAIN cache
       THEN UNCHANGED cache
       ELSE \E doc \in SeqsUpTo(Elements, MaxElems - Stored) :
                cache' = DictSet(cache, Frame.key, doc)
    /\ SetFrame([Frame EXCEPT !.pc = "parse"])
    /\ UNCHANGED <<joinVars, call, ret, outcome, objs, parserVars, iterVars>>

\* the element the session is in is complete
ElementDone ==
    IF Frame.e = 0 THEN TRUE ELSE Frame.m = Len(Doc[Frame.e].members)

\* startElement of the next top-level element, after endElement of the one
\* before it
ParseTopLevel ==
    /\ Fetching
    /\ Frame.pc = "parse"
    /\ ElementDone
    /\ Frame.e < Len(Doc)
    /\ LET el == Doc[Frame.e + 1]
       IN  SetFrame([Frame EXCEPT !.e = @ + 1, !.m = 0,
                                  !.len = IF Frame.e = 0 THEN 0 ELSE @ + 1,
                                  !.known = @ \cup {<<el.kind, el.id>>}])
    /\ UNCHANGED <<joinVars, call, ret, outcome, objs, parserVars, iterVars, cache>>

\* startElement("member", attr): get_known_or_fetch of the member
ParseMember ==
    /\ Fetching
    /\ Frame.pc = "parse"
    /\ ~ElementDone
    /\ LET key == Doc[Frame.e].members[Frame.m + 1]
       IN  IF key \in Frame.known
           THEN /\ SetFrame([Frame EXCEPT !.m = @ + 1])
                /\ UNCHANGED outcome
           ELSE Call([Frame EXCEPT !.pc = "member"], key)
    /\ UNCHANGED <<joinVars, call, ret, objs, parserVars, iterVars, cache>>

\* the document is at its end: None for a document without elements, else
\* parsed.get_known_or_fetch(element_type, element_id)
Parsed ==
    /\ Fetching
    /\ Frame.pc = "parse"
    /\ ElementDone
    /\ Frame.e = Len(Doc)
    /\ IF Len(Doc) = 0
       THEN /\ SetFrame([Frame EXCEPT !.pc = "return", !.res = None])
            /\ UNCHANGED outcome
       ELSE IF Frame.key \in Frame.known
       THEN /\ SetFrame([Frame EXCEPT !.pc = "return", !.res = "element",
                                      !.len = Len(Doc)])
            /\ UNCHANGED outcome
       ELSE Call([Frame EXCEPT !.pc = "get", !.len = Len(Doc)], Frame.key)
    /\ UNCHANGED <<joinVars, call, ret, objs, parserVars, iterVars, cache>>

\* a call returns: to the caller of the outermost one, to the member event
\* that was waiting for it (which registers what is not None), or to the
\* get_known_or_fetch that was waiting for it (which returns it in turn)
Return ==
    /\ Fetching
    /\ Frame.pc = "return"
    /\ IF Len(calls) = 1
       THEN /\ calls' = <<>>
            /\ ret' = IF Frame.res = None THEN <<>> ELSE <<Frame.key>>
            /\ outcome' = "returned"
       ELSE LET caller == calls[Len(calls) - 1]
                back == IF caller.pc = "member"
                        THEN [caller EXCEPT
                                !.pc = "parse", !.m = @ + 1,
                                !.known = IF Frame.res = None THEN @
                                          ELSE @ \cup {Frame.key}]
                        ELSE [caller EXCEPT !.pc = "return", !.res = Frame.res]
            IN  /\ calls' = [ButLast(calls) EXCEPT ![Len(calls) - 1] = back]
                /\ UNCHANGED <<ret, outcome>>
    /\ UNCHANGED <<joinVars, call, objs, parserVars, iterVars, cache>>

FetchNext == FetchCached \/ ParseTopLevel \/ ParseMember \/ Parsed \/ Return

SpecFetch == FetchInit /\ [][FetchNext]_vars

---------------------------------------------------------------------------
(* main(): way_iterator on the relation that fetch_osm_element returned,   *)
(* that is, on a relation built from the events of a session.              *)

\* parsed_relation.way_iterator(side) is called
StartWalk ==
    /\ outcome = "returned"
    /\ stack = <<>>
    /\ ret # <<>>
    /\ get_element_name(objs[ret[1]]) = "relation"
    /\ \E side \in BOOLEAN :
        /\ inner' = side
        /\ stack' = <<[rel |-> ret[1], i |-> 1, inner |-> side]>>
    /\ yielded' = <<>>
    /\ outcome' = "running"
    /\ UNCHANGED <<joinVars, call, ret, objs, parserVars, fetchVars>>

\* the events of the session, while no iterator runs
SessionStep == stack = <<>> /\ ParserNext

WalkNext == SessionStep \/ StartWalk \/ IterNext

SpecWalk == ParserInit /\ [][WalkNext]_vars

---------------------------------------------------------------------------
(* Claims about join_way_soup *)

IsSourceWay(w) == w.way_id # None

Points(w) == Range(w.nodes)

AllPoints(ws) == UNION {Points(ws[i]) : i \in 1..Len(ws)}

\* ws is the three ways A->B, B->C, C->A, in some order
IsTriangleOn(ws, A, B, C) ==
    /\ Len(ws) = 3
    /\ Cardinality({A, B, C}) = 3
    /\ \E i, j, k \in 1..3 :
        /\ {i, j, k} = 1..3
        /\ ws[i].nodes = <<A, B>>
        /\ ws[j].nodes = <<B, C>>
        /\ ws[k].nodes = <<C, A>>

IsTriangle(ws) == \E A, B, C \in AllPoints(ws) : IsTriangleOn(ws, A, B, C)

\* C1: once join_way_soup has consumed the three ways A->B, B->C, C->A of a
\* triangle, in whatever order, its result list holds exactly one way, that
\* way is closed and has 4 nodes of which 3 are distinct (A, B and C), and
\* the endpoint index holds no registration; the function has raised
\* nothing, and what it returns is that list.
C1_TriangleMakesOneRing ==
    \A A, B, C \in AllPoints(ways) :
        IsTriangleOn(ways, A, B, C) =>
            /\ outcome \in {"running", "returned"}
            /\ Len(closed_ways) = 1
            /\ closed(closed_ways[1])
            /\ Len(closed_ways[1].nodes) = 4
            /\ Points(closed_ways[1]) = {A, B, C}
            /\ number_of_endpoints(endpoints) = 0
            /\ outcome = "returned" => ret = closed_ways

C1_Witness ==
    /\ IsTriangle(ways)
    /\ outcome = "returned"
    /\ Len(ret) = 1
    /\ Len(join_calls) = 2

IsEndpointOf(p, w) == p = first(w) \/ p = last(w)

\* some open way of ws has an endpoint that no other entry of ws ends at
HasLonelyEndpoint(ws) ==
    \E i \in 1..Len(ws) :
        /\ ~closed(ws[i])
        /\ \E p \in {first(ws[i]), last(ws[i])} :
            \A j \in 1..Len(ws) : j # i => ~IsEndpointOf(p, ws[j])

\* C3: when join_way_soup ends on an input in which some open way has an
\* endpoint that is an endpoint of no other entry, it has raised
\* UnclosedBoundary and returned no list.
C3_LonelyEndpointFails ==
    (outcome # "running" /\ HasLonelyEndpoint(ways)) =>
        outcome = "UnclosedBoundary" /\ ret = <<>>

C3_Witness ==
    /\ outcome = "UnclosedBoundary"
    /\ HasLonelyEndpoint(ways)
    /\ Len(ways) >= 3
    /\ closed_ways # <<>>
    /\ join_calls # <<>>

\* the run on the six ways of the two triangles
InTriangles == pool \cup Range(ways) = TriangleWays

OneSide(ps) == ps \subseteq 1..3 \/ ps \subseteq 4..6

\* C4: on the six ways of the two disjoint triangles, in any order, every
\* join is between ways of one triangle, and when the six are consumed the
\* result is exactly two closed ways, one on the points 1, 2, 3 and one on
\* the points 4, 5, 6, with nothing left in the index.
C4_TwoTrianglesMakeTwoRings ==
    InTriangles =>
        /\ \A c \in Range(join_calls) : OneSide(Points(c.self) \cup Points(c.other))
        /\ \A p \in DOMAIN endpoints : OneSide(Points(endpoints[p]))
        /\ \A r \in Range(closed_ways) : OneSide(Points(r))
        /\ outcome \in {"running", "returned"}
        /\ Len(ways) = 6 =>
            /\ Len(closed_ways) = 2
            /\ \A r \in Range(closed_ways) : closed(r)
            /\ {Points(r) : r \in Range(closed_ways)} = {1..3, 4..6}
            /\ number_of_endpoints(endpoints) = 0
        /\ outcome = "returned" => ret = closed_ways /\ Len(ways) = 6

\* the two triangles interleaved: no two ways in a row from one triangle
C4_Witness ==
    /\ InTriangles
    /\ outcome = "returned"
    /\ Len(ret) = 2
    /\ \A i \in 1..5 : ~OneSide(Points(ways[i]) \cup Points(ways[i + 1]))

\* C6: the closed ways of the input are, in input order, exactly the
\* entries of the result list that Way.join did not build, each unchanged;
\* no way in the endpoint index is closed, and no way passed to Way.join,
\* as self or as other, is closed.
C6_ClosedWaysPassThrough ==
    /\ SelectSeq(closed_ways, IsSourceWay) = SelectSeq(ways, closed)
    /\ \A p \in DOMAIN endpoints : ~closed(endpoints[p])
    /\ \A c \in Range(join_calls) : ~closed(c.self) /\ ~closed(c.other)
    /\ outcome = "returned" => ret = closed_ways

\* a closed input way one of whose points is an endpoint of an open input
\* way that was joined, and two closed input ways around a joined ring
C6_Witness ==
    /\ outcome = "returned"
    /\ Len(SelectSeq(ret, IsSourceWay)) = 2
    /\ ~IsSourceWay(ret[2])
    /\ \E i, j \in 1..Len(ways) :
        /\ closed(ways[i])
        /\ ~closed(ways[j])
        /\ first(ways[j]) \in Points(ways[i])


\* the number of entries of ws, open or closed, that end at p
EndsAt(p, ws) == Cardinality({i \in 1..Len(ws) : IsEndpointOf(p, ws[i])})

\* C17: on every sequence of ways of at least one point each (duplicates
\* and points shared by more than two ways included) join_way_soup never
\* raises ConflictingEndpoint from add_way, NoCommonEndpoint or AlreadyClosed
\* from join, or KeyError from remove_way: it is running, has returned, or
\* has raised UnclosedBoundary, and that only once the input is consumed.
C17_OnlyUnclosedBoundary ==
    /\ outcome \in {"running", "returned", "UnclosedBoundary"}
    /\ outcome = "UnclosedBoundary" => pool = {}

\* a run with joins has ended on an input with a duplicated way and a point
\* at which three ways end
C17_Witness ==
    /\ outcome # "running"
    /\ join_calls # <<>>
    /\ \E i, j \in 1..Len(ways) : i # j /\ ways[i].nodes = ways[j].nodes
    /\ \E p \in AllPoints(ways) : EndsAt(p, ways) >= 3

\* the ways waiting in the index
Pending == {endpoints[p] : p \in DOMAIN endpoints}

\* C18: after every iteration of the loop of join_way_soup every way in the
\* index is open, a point maps to a way only if it is that way's first or
\* last point, a way registered under one of its endpoints is registered
\* under the other too, the number of registrations is even and twice the
\* number of waiting ways, and no two waiting ways share an endpoint.
C18_IndexInvariant ==
    /\ \A p \in DOMAIN endpoints :
        LET W == endpoints[p]
        IN  /\ ~closed(W)
            /\ IsEndpointOf(p, W)
            /\ first(W) \in DOMAIN endpoints /\ endpoints[first(W)] = W
            /\ last(W) \in DOMAIN endpoints /\ endpoints[last(W)] = W
    /\ number_of_endpoints(endpoints) % 2 = 0
    /\ number_of_endpoints(endpoints) = 2 * Cardinality(Pending)
    /\ \A V, W \in Pending :
        V # W => {first(V), last(V)} \cap {first(W), last(W)} = {}

\* two ways wait in the index after a join
C18_Witness ==
    /\ outcome = "running"
    /\ join_calls # <<>>
    /\ Cardinality(Pending) = 2
    /\ \E W \in Pending : ~IsSourceWay(W)

\* the number of open entries of ws that end at p
OpenEndsAt(p, ws) ==
    Cardinality({i \in 1..Len(ws) : ~closed(ws[i]) /\ IsEndpointOf(p, ws[i])})

EvenEverywhere(ws) == \A p \in AllPoints(ws) : OpenEndsAt(p, ws) % 2 = 0

\* C19: whether join_way_soup returns or raises UnclosedBoundary is decided
\* by the collection of input ways, not by their order: it returns exactly
\* when every point is an endpoint of an even number of the open input ways,
\* a condition every permutation of the input shares.
C19_OutcomeIsOrderFree ==
    outcome # "running" =>
        /\ outcome \in {"returned", "UnclosedBoundary"}
        /\ outcome = "returned" <=> EvenEverywhere(ways)

\* a run with two joins has returned on three or more ways, two open ones
\* ending at one point
C19_Witness ==
    /\ outcome = "returned"
    /\ Len(ways) >= 3
    /\ Len(join_calls) >= 2
    /\ \E i \in 1..Len(ways) : \E p \in AllPoints(ways) :
        /\ ~closed(ways[i])
        /\ OpenEndsAt(p, ways) = 2

RECURSIVE Edges(_)
\* the sum over ws of (number of points - 1)
Edges(ws) ==
    IF ws = <<>> THEN 0 ELSE Len(Head(ws).nodes) - 1 + Edges(Tail(ws))

\* s is a contiguous run of t
RunOf(s, t) ==
    \E k \in 0..(Len(t) - Len(s)) : SubSeq(t, k + 1, k + Len(s)) = s

\* the returned ways that hold the points of w, forward or reversed, as a
\* contiguous run
Holders(w) ==
    {j \in 1..Len(ret) :
        RunOf(w.nodes, ret[j].nodes) \/ RunOf(Reverse(w.nodes), ret[j].nodes)}

\* C20 as stated: when join_way_soup returns, every returned way is closed,
\* the returned ways have as many edges as the input ways, and the points of
\* each input way are a contiguous run, forward or reversed, of exactly one
\* returned way.
C20_EachFragmentInOneRing ==
    outcome = "returned" =>
        /\ \A j \in 1..Len(ret) : closed(ret[j])
        /\ Edges(ret) = Edges(ways)
        /\ \A i \in 1..Len(ways) : Cardinality(Holders(ways[i])) = 1

\* C20 amended: when join_way_soup returns, every returned way is closed,
\* the returned ways have as many edges as the input ways, and the points of
\* each input way are a contiguous run, forward or reversed, of at least one
\* returned way.
C20_EachFragmentInSomeRing ==
    outcome = "returned" =>
        /\ \A j \in 1..Len(ret) : closed(ret[j])
        /\ Edges(ret) = Edges(ways)
        /\ \A i \in 1..Len(ways) : Holders(ways[i]) # {}

\* a ring joined from fragments is returned next to a closed input way
C20_Witness ==
    /\ outcome = "returned"
    /\ Len(ret) >= 2
    /\ join_calls # <<>>
    /\ \E i \in 1..Len(ways) : closed(ways[i])

---------------------------------------------------------------------------
(* Claims about Way.join *)

Self == call.a[1]

Other == call.b[1]

SharedPairs(A, B) ==
    {pr \in {<<"first", "first">>, <<"first", "last">>,
             <<"last", "first">>, <<"last", "last">>} :
        (IF pr[1] = "first" THEN first(A) ELSE last(A))
            = (IF pr[2] = "first" THEN first(B) ELSE last(B))}

Orientations(w) == {w.nodes, Reverse(w.nodes)}

\* nodes is X followed by Y with the node they meet at written once
IsSplice(nodes, X, Y) ==
    /\ X[Len(X)] = Y[1]
    /\ nodes = X \o Tail(Y)

\* C2: Way.join on two open ways that share an endpoint returns a new way
\* of len(A)+len(B)-1 nodes: A and B, each forward or reversed, laid end to
\* end with the node they meet at written once.  Its first and last are the
\* ends of A and B away from that node; it is closed exactly when A and B
\* share both endpoints.  Its identifier is None and it has no tags.
C2_JoinSplices ==
    (call.op = "join" /\ ~closed(Self) /\ ~closed(Other)
        /\ SharedPairs(Self, Other) # {}) =>
        /\ outcome = "returned"
        /\ Len(ret) = 1
        /\ ret[1].way_id = None
        /\ ret[1].tags = EmptyDict
        /\ Len(ret[1].nodes) = Len(Self.nodes) + Len(Other.nodes) - 1
        /\ \E X \in Orientations(Self), Y \in Orientations(Other) :
              IsSplice(ret[1].nodes, X, Y) \/ IsSplice(ret[1].nodes, Y, X)
        /\ Cardinality(SharedPairs(Self, Other)) = 1 =>
              \E p \in {first(Self), last(Self)} \cap {first(Other), last(Other)} :
                 {first(ret[1]), last(ret[1])} =
                    ({first(Self), last(Self)} \cup {first(Other), last(Other)}) \ {p}
        /\ closed(ret[1]) <=> Cardinality(SharedPairs(Self, Other)) = 2

\* other is reversed and has an inner node: self.first == other.first
C2_Witness ==
    /\ call.op = "join"
    /\ outcome = "returned"
    /\ first(Self) = first(Other)
    /\ last(Self) # last(Other)
    /\ Len(Other.nodes) = 3
    /\ Len(ret[1].nodes) = Len(Self.nodes) + 2

---------------------------------------------------------------------------
(* Claims about EndpointToWayMap *)

Query == call'.a[1]

Registered(eps, p) == p \in DOMAIN eps

CountOf(s, x) == Cardinality({i \in 1..Len(s) : s[i] = x})

\* C7, as claimed (here for an open way and an index of open ways, as
\* join_way_soup keeps it): get_from_either_end returns at most two ways,
\* the registered ways that end at way.first or way.last, each of them once.
C7_EachWayOnce ==
    (/\ call.op = "get_from_either_end"
     /\ ~closed(Self)
     /\ \A p \in DOMAIN endpoints : ~closed(endpoints[p])) =>
        /\ Len(ret) <= 2
        /\ Range(ret) = {endpoints[p] : p \in {first(Self), last(Self)} \cap DOMAIN endpoints}
        /\ \A w \in Range(ret) : CountOf(ret, w) = 1

\* C7, amended: get_from_either_end returns a list with one entry for
\* way.first and one for way.last, in that order, for each of the two that
\* is registered: the entries are the ways registered there, a way that is
\* registered under both is listed twice, and the index is left unchanged.
C7_OneEntryPerEnd ==
    [][call'.op = "get_from_either_end" =>
        /\ endpoints' = endpoints
        /\ outcome' = "returned"
        /\ Len(ret') = (IF Registered(endpoints, first(Query)) THEN 1 ELSE 0)
                     + (IF Registered(endpoints, last(Query)) THEN 1 ELSE 0)
        /\ Range(ret') =
              {endpoints[p] : p \in {first(Query), last(Query)} \cap DOMAIN endpoints}
        /\ (Registered(endpoints, first(Query)) /\ Registered(endpoints, last(Query))) =>
              ret' = <<endpoints[first(Query)], endpoints[last(Query)]>>
      ]_vars

\* one registered open way shares both ends with the open way asked about
C7_Witness ==
    /\ call.op = "get_from_either_end"
    /\ ~closed(Self)
    /\ Len(ret) = 2
    /\ ret[1] = ret[2]
    /\ ~closed(ret[1])

\* C9: add_way raises ConflictingEndpoint when way.first or way.last is
\* registered already, and then changes no registration; otherwise it
\* registers the way under way.first and under way.last and changes no
\* other registration.
C9_AddWay ==
    [][call'.op = "add_way" =>
        IF Registered(endpoints, first(Query)) \/ Registered(endpoints, last(Query))
        THEN outcome' = "ConflictingEndpoint" /\ endpoints' = endpoints
        ELSE /\ outcome' = "returned"
             /\ DOMAIN endpoints' = DOMAIN endpoints \cup {first(Query), last(Query)}
             /\ endpoints'[first(Query)] = Query
             /\ endpoints'[last(Query)] = Query
             /\ \A p \in DOMAIN endpoints : endpoints'[p] = endpoints[p]
      ]_vars

\* a refused add_way: only way.last was taken, and the index is not empty
C9_Witness ==
    /\ call.op = "add_way"
    /\ outcome = "ConflictingEndpoint"
    /\ ~Registered(endpoints, first(Self))
    /\ Registered(endpoints, last(Self))
    /\ endpoints[last(Self)] # Self

---------------------------------------------------------------------------
(* Claims about OSMXMLParser *)

DictValues(d) == {d[k] : k \in DOMAIN d}

\* the addresses an object refers to: a way's nodes, a relation's members
RefsOf(o) ==
    IF get_element_name(o) = "way" THEN Range(o.nodes)
    ELSE IF get_element_name(o) = "relation"
    THEN {o.children[i][1] : i \in 1..Len(o.children)}
    ELSE {}

RECURSIVE Reachable(_)
Reachable(S) ==
    LET T == S \cup UNION {RefsOf(objs[a]) : a \in S}
    IN  IF T = S THEN S ELSE Reachable(T)

\* every reference the session holds or has handed out: the top-level
\* elements, the current element, the three dictionaries, the result of
\* get_known_or_fetch, and the node references and members of all of these
SessionRefs ==
    Reachable(Range(top_level_elements)
              \cup (IF current_top_level_element = Null
                    THEN {} ELSE {current_top_level_element})
              \cup DictValues(known_nodes) \cup DictValues(known_ways)
              \cup DictValues(known_relations)
              \cup Range(ret))

SameElement(a, b) ==
    /\ get_element_name(objs[a]) = get_element_name(objs[b])
    /\ ElementId(objs[a]) = ElementId(objs[b])

\* C5: within one session every two references to the same (kind, id) are
\* references to the identical object: the same address, not two objects
\* with equal ids.
C5_OneInstancePerElement ==
    \A a \in SessionRefs : \A b \in SessionRefs : SameElement(a, b) => a = b


\* the Way objects the session holds: the current element, the entries of
\* known_ways and the entries of the top-level list
SessionWays ==
    {a \in (IF current_top_level_element = Null
            THEN {} ELSE {current_top_level_element})
           \cup DictValues(known_ways) \cup Range(top_level_elements) :
        get_element_name(objs[a]) = "way"}

\* C13: in every state of a session no Way has an empty node list: not the
\* current element, not an entry of known_ways, not an entry of the
\* top-level list, and not a way that Way.join returned.
C13_NoEmptyWay ==
    /\ \A a \in SessionWays : objs[a].nodes # <<>>
    /\ \A i \in 1..Len(join_calls) :
        \A j \in 1..Len(join_calls[i].result) :
            join_calls[i].result[j].nodes # <<>>


\* the current element is a relation
InRelation ==
    IF current_top_level_element = Null THEN FALSE
    ELSE get_element_name(objs[current_top_level_element]) = "relation"

\* C14: a member event whose type is not node, way or relation, received
\* while the current element is a relation, fails with UnexpectedElement and
\* appends nothing to the children of the relation.
C14_UnknownMemberKind ==
    [][\A type \in MemberTypes \ VALID_RELATION_MEMBERS :
        \A ref \in Ids, role \in Roles :
            (InRelation /\ Member(type, ref, role)) =>
                /\ outcome' = "UnexpectedElement"
                /\ objs' = objs]_vars


\* the step fails with UnexpectedElement and the session is as before
Rejected ==
    /\ outcome' = "UnexpectedElement"
    /\ UNCHANGED <<objs, parserVars>>

\* C15: a begin event of a node, way or relation received while a top-level
\* element is current fails with UnexpectedElement and leaves the current
\* element, the three dictionaries and the top-level list as they were; a
\* tag, member or nd event received while no top-level element is current
\* fails with UnexpectedElement and changes nothing.
C15_MalformedNesting ==
    [][/\ \A name \in VALID_TOP_LEVEL_ELEMENTS, id \in Ids :
            (current_top_level_element # Null /\ TopLevel(name, id)) => Rejected
       /\ \A k \in TagKeys, v \in TagValues :
            (current_top_level_element = Null /\ Tag(k, v)) => Rejected
       /\ \A type \in MemberTypes, ref \in Ids, role \in Roles :
            (current_top_level_element = Null /\ Member(type, ref, role))
                => Rejected
       /\ \A ref \in Ids :
            (current_top_level_element = Null /\ Nd(ref)) => Rejected]_vars

\* a sub-level event arrived between two top-level elements, or a top-level
\* element began inside a node
C15_Witness ==
    /\ outcome = "UnexpectedElement"
    /\ top_level_elements # <<>>
    /\ \/ current_top_level_element = Null
       \/ get_element_name(objs[current_top_level_element]) = "node"


InWay ==
    /\ current_top_level_element # Null
    /\ get_element_name(objs[current_top_level_element]) = "way"

\* the member event appended (element of that type and id, role)
MemberAppended(type, ref, role) ==
    LET c == current_top_level_element
    IN  /\ ref \in DOMAIN Known(type)'
        /\ get_element_name(objs'[Known(type)'[ref]]) = type
        /\ ElementId(objs'[Known(type)'[ref]]) = ref
        /\ objs'[c].children =
                Append(objs[c].children, <<Known(type)'[ref], role>>)

\* the member event was dropped: nothing of the session changed
MemberOmitted(type, ref) ==
    /\ ref \notin DOMAIN Known(type)
    /\ objs' = objs
    /\ UNCHANGED parserVars

---------------------------------------------------------------------------
(* Claims about Relation.way_iterator *)

\* the roles of a side
Matches(side, role) ==
    IF side THEN role \in {"inner", "enclave"} ELSE role \in {"", "outer"}

\* A path is the indices of the children to follow, level by level.
\* The object the path p leads to from the object a, through relations and
\* through children whose role matches the side at every level; Null if it
\* leads nowhere
RECURSIVE Follow(_, _)
Follow(a, p) ==
    IF p = <<>> THEN a
    ELSE IF get_element_name(objs[a]) # "relation" THEN Null
    ELSE IF Head(p) > Len(objs[a].children) THEN Null
    ELSE LET e == objs[a].children[Head(p)]
         IN  IF Matches(inner, e[2]) THEN Follow(e[1], Tail(p)) ELSE Null

\* the paths of at most d levels that lead from the relation a to a way
RECURSIVE WayPathsFrom(_, _)
WayPathsFrom(a, d) ==
    IF d = 0 THEN {}
    ELSE UNION {
        LET e == objs[a].children[i]
        IN  IF ~Matches(inner, e[2]) THEN {}
            ELSE IF get_element_name(objs[e[1]]) = "way" THEN {<<i>>}
            ELSE IF get_element_name(objs[e[1]]) = "relation"
            THEN {<<i>> \o p : p \in WayPathsFrom(e[1], d - 1)}
            ELSE {}
        : i \in 1..Len(objs[a].children)}

WayPaths == WayPathsFrom(Root, MaxDepth)

\* depth-first child order: p branches off to an earlier child than q
Before(p, q) ==
    \E i \in 1..Len(p) :
        /\ i <= Len(q)
        /\ p[i] < q[i]
        /\ \A j \in 1..(i - 1) : p[j] = q[j]

Rank(p) == 1 + Cardinality({q \in WayPaths : Before(q, p)})

---------------------------------------------------------------------------
(* Claims about fetch_osm_element *)

\* C11: fetch_osm_element called for any (kind, id) completes, whatever the
\* stored documents are (empty, without the element asked for, or with
\* relations that refer to each other): it does not fail, and what it
\* returns is the element of that kind and id or nothing.
C11_FetchCompletes ==
    /\ outcome \in {"running", "returned"}
    /\ outcome = "returned" => ret \in {<<>>, <<call.a>>}

\* C12: on every relation a session builds from its events, a relation that
\* lists itself as a member with a role of the side included, way_iterator
\* yields finitely many ways and then ends: it never fails for being nested
\* too deep.
C12_WalkTerminates == outcome # "RecursionError"

===========================================================================
